---- MODULE Spec2Model ----
(***************************************************************************)
(* A model of ReportEngine/renderers/pdf_renderer.py (class PDFRenderer).  *)
(*                                                                         *)
(* The renderer instance holds chart_converter (set only when its          *)
(* construction succeeded) and layout_optimizer (whose field config is the *)
(* stored layout).  The environment holds the wall clock and the files     *)
(* under logs/pdf_layouts.  One action models one whole public call        *)
(* (render_to_pdf, render_to_bytes); the record `call` keeps what the call *)
(* was given, what it did (in order, in `trace`) and how it ended, until   *)
(* the caller takes the result (Return).                                   *)
(*                                                                         *)
(* Markup is modelled as a sequence of elements and vector content as a    *)
(* sequence of tokens; the regular expressions of _inject_svg_into_html    *)
(* and the replacement-template expansion of re.sub act on those.          *)
(***************************************************************************)
EXTENDS Naturals, Sequences, FiniteSets

VARIABLES
    chart_converter,   \* TRUE iff self.chart_converter exists and is usable
    config,            \* self.layout_optimizer.config
    logs,              \* file names (timestamps) present under logs/pdf_layouts
    saved,             \* number of render calls that saved an audit log
    now,               \* wall clock, in whole seconds
    pc,                \* "idle" | "returned"
    call               \* the finished call, until its result is taken

vars == <<chart_converter, config, logs, saved, now, pc, call>>

(***************************************************************************)
(* Bounds of the model.                                                    *)
(***************************************************************************)
MaxClock == 1
MaxSaved == 2
MaxDepth == 3

(***************************************************************************)
(* Fonts: _get_font_path.                                                  *)
(***************************************************************************)
FullFont  == [file |-> "SourceHanSerifSC-Medium",        suffix |-> ".otf"]
SubsetTtf == [file |-> "SourceHanSerifSC-Medium-Subset", suffix |-> ".ttf"]
SubsetOtf == [file |-> "SourceHanSerifSC-Medium-Subset", suffix |-> ".otf"]
NoFont    == [file |-> "",                               suffix |-> ""]

FontCandidates == {FullFont, SubsetTtf, SubsetOtf}

\* A variant that prefers the TrueType subset over the full font.
GetFontPathSubsetFirst(exists) ==
    IF SubsetTtf \in exists THEN [raised |-> FALSE, path |-> SubsetTtf]
    ELSE IF FullFont \in exists THEN [raised |-> FALSE, path |-> FullFont]
    ELSE IF SubsetOtf \in exists THEN [raised |-> FALSE, path |-> SubsetOtf]
    ELSE [raised |-> TRUE, path |-> NoFont]

\* A variant whose last candidate is returned without being probed.
GetFontPathNoProbe(exists) ==
    IF FullFont \in exists THEN [raised |-> FALSE, path |-> FullFont]
    ELSE IF SubsetTtf \in exists THEN [raised |-> FALSE, path |-> SubsetTtf]
    ELSE [raised |-> FALSE, path |-> SubsetOtf]

\* exists: the candidate files present in assets/fonts when probed.
\* raised = TRUE stands for FileNotFoundError.
_get_font_path(exists) ==
    IF FullFont \in exists THEN [raised |-> FALSE, path |-> FullFont]
    ELSE IF SubsetTtf \in exists THEN [raised |-> FALSE, path |-> SubsetTtf]
    ELSE IF SubsetOtf \in exists THEN [raised |-> FALSE, path |-> SubsetOtf]
    ELSE [raised |-> TRUE, path |-> NoFont]

\* font_format = 'opentype' if font_path.suffix == '.otf' else 'truetype'
FontFormat(font_path) ==
    IF font_path.suffix = ".otf" THEN "opentype" ELSE "truetype"

(***************************************************************************)
(* Document IR.  A block is a dict (isDict) with the keys the traversal    *)
(* reads: type, widgetId, widgetType, blocks, items, rows.  A key that is  *)
(* absent reads as the default the code gives it ('' or an empty list; for *)
(* 'blocks', None and [] are both traversed to no effect).  An element of  *)
(* a block list that is no dict has isDict = FALSE.  A list item is either *)
(* a list of blocks (isList) or something else; a table row holds cells,   *)
(* a cell holds blocks.  Strings the code inspects by character            *)
(* (widgetType) are sequences of characters.                               *)
(***************************************************************************)
Block(type, widgetId, widgetType, blocks, items, rows) ==
    [isDict |-> TRUE, type |-> type, widgetId |-> widgetId,
     widgetType |-> widgetType, blocks |-> blocks, items |-> items,
     rows |-> rows]

NonDict == [isDict |-> FALSE, type |-> "", widgetId |-> "",
            widgetType |-> <<>>, blocks |-> <<>>, items |-> <<>>,
            rows |-> <<>>]

ChartJs == <<"c", "h", "a", "r", "t", ".", "j", "s">>
ChartJsBar == ChartJs \o <<"/", "b", "a", "r">>
ChartOnly == <<"c", "h", "a", "r", "t">>
WordCloud == <<"w", "o", "r", "d", "c", "l", "o", "u", "d">>

Paragraph == Block("paragraph", "", <<>>, <<>>, <<>>, <<>>)
Widget(widgetId, widgetType) ==
    Block("widget", widgetId, widgetType, <<>>, <<>>, <<>>)

\* str.startswith
StartsWith(s, prefix) ==
    /\ Len(s) >= Len(prefix)
    /\ SubSeq(s, 1, Len(prefix)) = prefix

(***************************************************************************)
(* The vector map is a Python dict: an insertion-ordered sequence of       *)
(* entries, at most one per key.                                           *)
(***************************************************************************)
Keys(map) == {map[i].widgetId : i \in 1..Len(map)}

Lookup(map, widgetId) ==
    LET i == CHOOSE j \in 1..Len(map) : map[j].widgetId = widgetId
    IN map[i].svg

\* svg_map[widget_id] = svg_content
DictSet(map, widgetId, svg) ==
    IF widgetId \in Keys(map)
    THEN [i \in 1..Len(map) |->
             IF map[i].widgetId = widgetId
             THEN [widgetId |-> widgetId, svg |-> svg]
             ELSE map[i]]
    ELSE Append(map, [widgetId |-> widgetId, svg |-> svg])

(***************************************************************************)
(* The chart converter is an opaque collaborator.  `convert` gives, for    *)
(* each widget id, what convert_widget_to_svg does for that widget in this *)
(* call: raise, or return svg (empty = None or '').                        *)
(* acc = [svg_map, calls]: the dict being filled and the widgets the       *)
(* converter was invoked for, in order.                                    *)
(***************************************************************************)
\* A variant that records whatever the converter returned, empty or not.
ConvertWidgetKeepEmpty(block, acc, convert) ==
    LET widget_id == block.widgetId
        out == convert[widget_id]
        called == Append(acc.calls, widget_id)
    IN  IF out.raises
        THEN [acc EXCEPT !.calls = called]
        ELSE [svg_map |-> DictSet(acc.svg_map, widget_id, out.svg),
              calls |-> called]

\* Lines 139-152: the try/except around one conversion.
ConvertWidget(block, acc, convert) ==
    LET widget_id == block.widgetId
        out == convert[widget_id]
        called == Append(acc.calls, widget_id)
    IN  IF out.raises
        THEN [acc EXCEPT !.calls = called]             \* except: logger.error
        ELSE IF out.svg # <<>>
        THEN [svg_map |-> DictSet(acc.svg_map, widget_id, out.svg),
              calls |-> called]
        ELSE [acc EXCEPT !.calls = called]             \* logger.warning

RECURSIVE _extract_and_convert_widgets(_, _, _)
RECURSIVE ExtractItems(_, _, _)
RECURSIVE ExtractRows(_, _, _)
RECURSIVE ExtractCells(_, _, _)

\* Lines 172-174: for cell in cells.
ExtractCells(cells, acc, convert) ==
    IF cells = <<>> THEN acc
    ELSE ExtractCells(Tail(cells),
             _extract_and_convert_widgets(Head(cells).blocks, acc, convert),
             convert)

\* Lines 169-171: for row in rows.
ExtractRows(rows, acc, convert) ==
    IF rows = <<>> THEN acc
    ELSE ExtractRows(Tail(rows),
             ExtractCells(Head(rows).cells, acc, convert), convert)

\* Lines 162-164: for item in items.
ExtractItems(items, acc, convert) ==
    IF items = <<>> THEN acc
    ELSE LET item == Head(items)
             a == IF item.isList
                  THEN _extract_and_convert_widgets(item.blocks, acc, convert)
                  ELSE acc
         IN ExtractItems(Tail(items), a, convert)

\* A variant that does not descend into table cells.
ExtractTableSkipped(block, acc, convert) == acc

\* Lines 167-174.
ExtractTable(block, acc, convert) ==
    IF block.type = "table" THEN ExtractRows(block.rows, acc, convert) ELSE acc

\* Lines 160-164.
ExtractList(block, acc, convert) ==
    IF block.type = "list" THEN ExtractItems(block.items, acc, convert) ELSE acc

\* Lines 133-152.
ExtractWidget(block, acc, convert) ==
    IF /\ block.type = "widget"
       /\ block.widgetId # ""
       /\ StartsWith(block.widgetType, ChartJs)
    THEN ConvertWidget(block, acc, convert)
    ELSE acc

\* Lines 126-174: one pass over a block list.
_extract_and_convert_widgets(blocks, acc, convert) ==
    IF blocks = <<>> THEN acc
    ELSE LET block == Head(blocks)
             a1 == ExtractWidget(block, acc, convert)
             a2 == _extract_and_convert_widgets(block.blocks, a1, convert)
             a3 == ExtractList(block, a2, convert)
             a4 == ExtractTable(block, a3, convert)
         IN _extract_and_convert_widgets(Tail(blocks),
                IF block.isDict THEN a4 ELSE acc, convert)

RECURSIVE ExtractChapters(_, _, _)
\* Lines 106-109: for chapter in chapters.
ExtractChapters(chapters, acc, convert) ==
    IF chapters = <<>> THEN acc
    ELSE ExtractChapters(Tail(chapters),
             _extract_and_convert_widgets(Head(chapters).blocks, acc, convert),
             convert)

EmptyAcc == [svg_map |-> <<>>, calls |-> <<>>]

\* A variant without the guard on chart_converter.
ConvertChartsUnguarded(document_ir, converter, convert) ==
    ExtractChapters(document_ir.chapters, EmptyAcc, convert)

\* Lines 99-112.  converter: hasattr(self, 'chart_converter') and it is truthy.
_convert_charts_to_svg(document_ir, converter, convert) ==
    IF ~converter THEN EmptyAcc
    ELSE ExtractChapters(document_ir.chapters, EmptyAcc, convert)

(***************************************************************************)
(* Markup.  An HTML document is a sequence of elements; an element has a   *)
(* tag, an id (the N of chart-N or chart-config-N), ref (the N of its      *)
(* data-config-id), the widgetId its JSON payload or table belongs to, and *)
(* content (vector tokens, for an injected container).                     *)
(*                                                                         *)
(* Vector content is a sequence of tokens:                                 *)
(*   "xml"      an XML declaration <?xml ...?>                             *)
(*   "doctype"  a <!DOCTYPE ...> declaration                               *)
(*   "sp"       white space                                                *)
(*   "svg"      markup without backslashes                                 *)
(*   "\\"       one backslash character                                    *)
(*   "n"        the letter n (\n is a known escape of a re template)       *)
(*   "d"        an ASCII letter that is no escape of a re template         *)
(*   "1"        a digit                                                    *)
(*   "nl"       a newline character                                        *)
(***************************************************************************)
Elem(tag, id, ref, widgetId, content) ==
    [tag |-> tag, id |-> id, ref |-> ref, widgetId |-> widgetId,
     content |-> content]

HeadClose == Elem("/head", 0, 0, "", <<>>)
Style == Elem("style", 0, 0, "", <<>>)
Text == Elem("text", 0, 0, "", <<>>)
Canvas(n) == Elem("canvas", n, n, "", <<>>)
Fallback(widgetId) == Elem("table.chart-fallback", 0, 0, widgetId, <<>>)
ConfigScript(n, widgetId) == Elem("script", n, 0, widgetId, <<>>)
SvgContainer(content) == Elem("div.chart-svg-container", 0, 0, "", content)

\* HTMLRenderer.render: per chart widget, in document order, a placeholder
\* <canvas id="chart-N" data-config-id="chart-config-N"> with its fallback
\* table, and a script <script type="application/json" id="chart-config-N">
\* {"widgetId": ...}.  doc.charts lists the document's chart widgets in order.
HtmlRender(doc) ==
    LET n == Len(doc.charts)
        body == [i \in 1..(2 * n) |->
                    IF i % 2 = 1 THEN Canvas((i + 1) \div 2)
                    ELSE Fallback(doc.charts[i \div 2])]
        scripts == [i \in 1..n |-> ConfigScript(i, doc.charts[i])]
    IN <<HeadClose, Text>> \o body \o scripts

\* Where HtmlRender puts the placeholder of the k-th chart widget.
CanvasIndex(k) == 2 * k + 1

RemoveToken(s, t) == SelectSeq(s, LAMBDA x : x # t)

RECURSIVE LStrip(_)
LStrip(s) == IF s # <<>> /\ Head(s) = "sp" THEN LStrip(Tail(s)) ELSE s

RECURSIVE RStrip(_)
RStrip(s) ==
    IF s # <<>> /\ s[Len(s)] = "sp" THEN RStrip(SubSeq(s, 1, Len(s) - 1))
    ELSE s

\* Lines 195-197: drop the XML and DOCTYPE declarations, then strip().
CleanSvg(svg_content) ==
    LStrip(RStrip(RemoveToken(RemoveToken(svg_content, "xml"), "doctype")))

RECURSIVE ExpandTemplate(_)
\* Line 215: re.sub(canvas_pattern, svg_html, html) reads svg_html as a
\* replacement template.  In a template, \\ is one backslash, \n a newline,
\* \<digit> a group reference (canvas_pattern has no group: re.error), a
\* backslash before any other ASCII letter is a bad escape (re.error), and a
\* backslash before anything else is kept.  t is the vector content inside
\* svg_html: a backslash that ends it stands before the '<' of '</div>'.
ExpandTemplate(t) ==
    IF t = <<>> THEN [error |-> FALSE, text |-> <<>>]
    ELSE IF Head(t) # "\\"
    THEN LET r == ExpandTemplate(Tail(t))
         IN [error |-> r.error, text |-> <<Head(t)>> \o r.text]
    ELSE IF Len(t) = 1 THEN [error |-> FALSE, text |-> <<"\\">>]
    ELSE LET c == t[2]
             r == ExpandTemplate(SubSeq(t, 3, Len(t)))
         IN CASE c = "\\" -> [error |-> r.error, text |-> <<"\\">> \o r.text]
              [] c = "n"  -> [error |-> r.error, text |-> <<"nl">> \o r.text]
              [] c = "d"  -> [error |-> TRUE, text |-> <<>>]
              [] c = "1"  -> [error |-> TRUE, text |-> <<>>]
              [] OTHER    -> [error |-> r.error, text |-> <<"\\", c>> \o r.text]

\* Lines 204-205: re.search(config_pattern, html): the first configuration
\* script whose payload carries this widgetId; 0 when there is none.
FindConfig(html, widget_id) ==
    LET hits == {i \in 1..Len(html) :
                    html[i].tag = "script" /\ html[i].widgetId = widget_id}
    IN IF hits = {} THEN 0
       ELSE CHOOSE i \in hits : \A j \in hits : i <= j

\* Lines 212-215: every canvas whose data-config-id is config_id is replaced.
ReplaceCanvas(html, config_id, content) ==
    [i \in 1..Len(html) |->
        IF html[i].tag = "canvas" /\ html[i].ref = config_id
        THEN SvgContainer(content)
        ELSE html[i]]

\* Line 215.  raised = TRUE stands for re.error.
SubstituteCanvas(html, config_id, svg_content) ==
    LET repl == ExpandTemplate(svg_content)
    IN IF repl.error THEN [html |-> html, raised |-> TRUE]
       ELSE [html |-> ReplaceCanvas(html, config_id, repl.text),
             raised |-> FALSE]

RECURSIVE InjectEntries(_, _)
\* Lines 193-218: for widget_id, svg_content in svg_map.items().
InjectEntries(html, entries) ==
    IF entries = <<>> THEN [html |-> html, raised |-> FALSE]
    ELSE LET widget_id == Head(entries).widgetId
             svg_content == CleanSvg(Head(entries).svg)
             match == FindConfig(html, widget_id)
             sub == SubstituteCanvas(html, html[match].id, svg_content)
         IN IF match = 0 THEN InjectEntries(html, Tail(entries))
            ELSE IF sub.raised THEN sub
            ELSE InjectEntries(sub.html, Tail(entries))

\* Lines 187-220.
_inject_svg_into_html(html, svg_map) ==
    IF svg_map = <<>> THEN [html |-> html, raised |-> FALSE]
    ELSE InjectEntries(html, svg_map)

\* Line 345: html.replace('</head>', pdf_css + '</head>').
InsertStyle(html, i) ==
    SubSeq(html, 1, i - 1) \o <<Style, HeadClose>> \o SubSeq(html, i + 1, Len(html))

RECURSIVE ReplaceHeadFrom(_, _)
ReplaceHeadFrom(html, i) ==
    IF i > Len(html) THEN html
    ELSE IF html[i] = HeadClose
    THEN ReplaceHeadFrom(InsertStyle(html, i), i + 2)
    ELSE ReplaceHeadFrom(html, i + 1)

ReplaceHead(html) == ReplaceHeadFrom(html, 1)

(***************************************************************************)
(* Layout optimizer (PDFLayoutOptimizer).  A layout configuration is       *)
(* abstracted to what it was derived from: nothing (the constructor's      *)
(* default) or a document's analysis (its number of chart widgets).        *)
(***************************************************************************)
DefaultConfig == [optimized |-> FALSE, charts |-> 0]

\* optimize_for_document: deterministic in the document.
LayoutFor(doc) == [optimized |-> TRUE, charts |-> Len(doc.charts)]

OptimizeCalls == <<"optimize_for_document", "_analyze_document",
                   "_log_optimization", "save_config">>

\* A variant that never stores the derived layout in the optimizer.
OptimizeStepNoStore(doc, optimize_layout) ==
    IF optimize_layout
    THEN [layout_config |-> LayoutFor(doc), config |-> config,
          logs |-> logs \cup {now}, saved |-> saved + 1,
          trace |-> OptimizeCalls]
    ELSE [layout_config |-> config, config |-> config, logs |-> logs,
          saved |-> saved, trace |-> <<>>]

\* A variant that optimizes whatever the flag says.
OptimizeStepAlways(doc, optimize_layout) ==
    [layout_config |-> LayoutFor(doc), config |-> LayoutFor(doc),
     logs |-> logs \cup {now}, saved |-> saved + 1, trace |-> OptimizeCalls]

\* Lines 244-261.  The log file is named by the clock's second; save_config
\* creates or rewrites that file.  The result is the local layout_config, the
\* optimizer's config, the log directory and the calls made, in order.
OptimizeStep(doc, optimize_layout) ==
    IF optimize_layout
    THEN [layout_config |-> LayoutFor(doc), config |-> LayoutFor(doc),
          logs |-> logs \cup {now}, saved |-> saved + 1,
          trace |-> OptimizeCalls]
    ELSE [layout_config |-> config, config |-> config, logs |-> logs,
          saved |-> saved, trace |-> <<>>]

\* Line 284: generate_pdf_css() takes no argument; the CSS is determined by
\* the layout the optimizer holds when it is called.
generate_pdf_css(optimizer_config) == optimizer_config

(***************************************************************************)
(* _get_pdf_html and the two public operations.  The result record holds   *)
(* the call's locals and effects; exc is the exception that left the call  *)
(* ("none" when it returned).                                              *)
(***************************************************************************)
PdfHtml(opt, acc, patched, exc, trace, html, font_path, font_format, css) ==
    [layout_config |-> opt.layout_config, config |-> opt.config,
     logs |-> opt.logs, saved |-> opt.saved,
     svg_map |-> acc.svg_map, calls |-> acc.calls, patched |-> patched,
     exc |-> exc, trace |-> trace, html |-> html, font_path |-> font_path,
     font_format |-> font_format, css |-> css]

\* Lines 244-347.
_get_pdf_html(doc, optimize_layout, exists, convert) ==
    LET opt == OptimizeStep(doc, optimize_layout)
        acc == _convert_charts_to_svg(doc.ir, chart_converter, convert)
        base == HtmlRender(doc)
        inj == IF acc.svg_map # <<>>
               THEN _inject_svg_into_html(base, acc.svg_map)
               ELSE [html |-> base, raised |-> FALSE]
        font == _get_font_path(exists)
        t1 == opt.trace \o <<"_convert_charts_to_svg", "html_renderer.render">>
        t2 == IF acc.svg_map # <<>> THEN t1 \o <<"_inject_svg_into_html">>
              ELSE t1
        t3 == t2 \o <<"_get_font_path">>
        t4 == t3 \o <<"generate_pdf_css">>
    IN  IF inj.raised
        THEN PdfHtml(opt, acc, inj.html, "re.error", t2, <<>>,
                     NoFont, "", DefaultConfig)
        ELSE IF font.raised
        THEN PdfHtml(opt, acc, inj.html, "FileNotFoundError", t3, <<>>,
                     NoFont, "", DefaultConfig)
        ELSE PdfHtml(opt, acc, inj.html, "none", t4, ReplaceHead(inj.html),
                     font.path, FontFormat(font.path),
                     generate_pdf_css(opt.config))

\* A call's record: what it was given (args), the result of _get_pdf_html,
\* how the call ended, whether write_pdf failed, whether a value was returned.
Finished(entry, args, h, exc, trace, rasterFails, result) ==
    [entry |-> entry, doc |-> args.doc,
     optimize_layout |-> args.optimize_layout, exists |-> args.exists,
     convert |-> args.convert, layout_config |-> h.layout_config,
     config |-> h.config, logs |-> h.logs,
     saved |-> h.saved, svg_map |-> h.svg_map, calls |-> h.calls,
     patched |-> h.patched, html |-> h.html, font_path |-> h.font_path,
     font_format |-> h.font_format, css |-> h.css, exc |-> exc,
     trace |-> trace, rasterFails |-> rasterFails, result |-> result]

\* Lines 366-391.  args = [doc, optimize_layout, exists, convert].
render_to_pdf(args, rasterFails) ==
    LET h == _get_pdf_html(args.doc, args.optimize_layout, args.exists,
                           args.convert)
    IN  IF h.exc # "none"
        THEN Finished("render_to_pdf", args, h, h.exc, h.trace, FALSE, FALSE)
        ELSE IF rasterFails
        THEN Finished("render_to_pdf", args, h, "RasterError",
                      h.trace \o <<"write_pdf", "logger.error">>, TRUE, FALSE)
        ELSE Finished("render_to_pdf", args, h, "none",
                      h.trace \o <<"write_pdf">>, FALSE, TRUE)

\* Lines 408-415.
render_to_bytes(args, rasterFails) ==
    LET h == _get_pdf_html(args.doc, args.optimize_layout, args.exists,
                           args.convert)
    IN  IF h.exc # "none"
        THEN Finished("render_to_bytes", args, h, h.exc, h.trace, FALSE, FALSE)
        ELSE IF rasterFails
        THEN Finished("render_to_bytes", args, h, "RasterError",
                      h.trace \o <<"write_pdf">>, TRUE, FALSE)
        ELSE Finished("render_to_bytes", args, h, "none",
                      h.trace \o <<"write_pdf">>, FALSE, TRUE)

(***************************************************************************)
(* Inputs.  A document is given with what it was built from: charts, its   *)
(* chart widgets (type 'widget', non-empty widgetId, widgetType starting   *)
(* with 'chart.js') in document order, and path, the nesting under which   *)
(* its widget "w1" was placed.  Widget ids are unique within a document.   *)
(***************************************************************************)
WidgetIds == {"w1", "w2", "w3"}

MkDoc(chapters, charts, path) ==
    [ir |-> [chapters |-> chapters], charts |-> charts, path |-> path]

Chapter(blocks) == [blocks |-> blocks]

\* One level of nesting around a block list.
Wrap(kind, blocks) ==
    CASE kind = "blocks" ->
           Block("section", "", <<>>, blocks, <<>>, <<>>)
      [] kind = "list" ->
           Block("list", "", <<>>, <<>>,
                 <<[isList |-> FALSE, blocks |-> <<>>],
                   [isList |-> TRUE, blocks |-> blocks]>>, <<>>)
      [] kind = "table" ->
           Block("table", "", <<>>, <<>>, <<>>,
                 <<[cells |-> <<[blocks |-> <<Paragraph>>],
                                [blocks |-> blocks]>>]>>)

RECURSIVE Nest(_, _)
Nest(path, blocks) ==
    IF path = <<>> THEN blocks
    ELSE <<Wrap(Head(path), Nest(Tail(path), blocks))>>

Wrappers == {"blocks", "list", "table"}

RECURSIVE PathsOfLen(_)
PathsOfLen(n) ==
    IF n = 0 THEN {<<>>}
    ELSE {<<w>> \o p : w \in Wrappers, p \in PathsOfLen(n - 1)}

Paths == UNION {PathsOfLen(n) : n \in 0..MaxDepth}

IsChart(widgetId, widgetType) ==
    widgetId # "" /\ widgetType \in {ChartJs, ChartJsBar}

\* Documents for widget discovery: widget "w1" (or a widget that is no chart)
\* under every nesting path, with a top-level chart "w2" before or after it.
NestedDoc(path, widgetId, widgetType, sibling) ==
    LET nested == Nest(path, <<NonDict, Widget(widgetId, widgetType)>>)
        other == <<Widget("w2", ChartJs)>>
        own == IF IsChart(widgetId, widgetType) THEN <<widgetId>> ELSE <<>>
    IN CASE sibling = "before" ->
              MkDoc(<<Chapter(other \o nested)>>, <<"w2">> \o own, path)
         [] sibling = "after" ->
              MkDoc(<<Chapter(nested), Chapter(other)>>, own \o <<"w2">>, path)
         [] OTHER -> MkDoc(<<Chapter(nested)>>, own, path)

NestedDocs ==
    {NestedDoc(p, id, t, s) :
        p \in Paths, id \in {"w1", ""},
        t \in {ChartJs, ChartJsBar, ChartOnly, <<>>},
        s \in {"none", "before", "after"}}

\* Documents for whole renders: no chart, one chart, two charts.
NoChartDoc ==
    MkDoc(<<Chapter(<<Paragraph, Widget("w3", WordCloud)>>)>>, <<>>, <<>>)
OneChartDoc ==
    MkDoc(<<Chapter(<<Widget("w1", ChartJsBar), Paragraph>>)>>, <<"w1">>, <<>>)
TwoChartDoc ==
    MkDoc(<<Chapter(<<Widget("w1", ChartJsBar)>>),
            Chapter(Nest(<<"list">>, <<Widget("w2", ChartJs)>>))>>,
          <<"w1", "w2">>, <<>>)

RenderDocs == {NoChartDoc, OneChartDoc, TwoChartDoc}

\* What the converter may do for one widget.
Raises == [raises |-> TRUE, svg |-> <<>>]
Returns(svg) == [raises |-> FALSE, svg |-> svg]
PlainSvg == <<"xml", "doctype", "sp", "svg">>
BackslashSvg == <<"svg", "\\", "d", "svg">>
Outcomes == {Raises, Returns(<<>>), Returns(PlainSvg), Returns(BackslashSvg)}

ChartSet(doc) == {doc.charts[i] : i \in 1..Len(doc.charts)}

\* The converter's behaviour in one call; fixed for widgets it is not given.
Converts(doc) ==
    {f \in [WidgetIds -> Outcomes] :
        \A w \in WidgetIds \ ChartSet(doc) : f[w] = Returns(<<>>)}

NoCall ==
    [entry |-> "", doc |-> MkDoc(<<>>, <<>>, <<>>), optimize_layout |-> FALSE,
     exists |-> {}, convert |-> [w \in WidgetIds |-> Returns(<<>>)],
     layout_config |-> DefaultConfig, config |-> DefaultConfig, logs |-> {},
     saved |-> 0, svg_map |-> <<>>,
     calls |-> <<>>, patched |-> <<>>, html |-> <<>>, font_path |-> NoFont,
     font_format |-> "", css |-> DefaultConfig, exc |-> "none",
     trace |-> <<>>, rasterFails |-> FALSE, result |-> FALSE]

(***************************************************************************)
(* The state machine.                                                      *)
(***************************************************************************)
\* Lines 48-61: __init__.  The converter exists iff the font lookup and
\* create_chart_converter both succeeded; a failure is only logged.
Init ==
    /\ \E exists \in SUBSET FontCandidates, created \in BOOLEAN :
          chart_converter = (~_get_font_path(exists).raised /\ created)
    /\ config = DefaultConfig
    /\ logs = {}
    /\ saved = 0
    /\ now = 0
    /\ pc = "idle"
    /\ call = NoCall

Args(doc, optimize_layout, exists, convert) ==
    [doc |-> doc, optimize_layout |-> optimize_layout, exists |-> exists,
     convert |-> convert]

Finish(r) ==
    /\ pc' = "returned"
    /\ call' = r
    /\ config' = r.config
    /\ logs' = r.logs
    /\ saved' = r.saved
    /\ UNCHANGED <<chart_converter, now>>

RenderToPdf ==
    /\ pc = "idle"
    /\ \E doc \in RenderDocs, optimize_layout \in BOOLEAN,
          exists \in SUBSET FontCandidates, rasterFails \in BOOLEAN :
          \E convert \in Converts(doc) :
             /\ optimize_layout => saved < MaxSaved
             /\ Finish(render_to_pdf(
                    Args(doc, optimize_layout, exists, convert), rasterFails))

RenderToBytes ==
    /\ pc = "idle"
    /\ \E doc \in RenderDocs, optimize_layout \in BOOLEAN,
          exists \in SUBSET FontCandidates, rasterFails \in BOOLEAN :
          \E convert \in Converts(doc) :
             /\ optimize_layout => saved < MaxSaved
             /\ Finish(render_to_bytes(
                    Args(doc, optimize_layout, exists, convert), rasterFails))

\* The caller takes the result or the exception; the call's locals are gone.
Return ==
    /\ pc = "returned"
    /\ pc' = "idle"
    /\ call' = NoCall
    /\ UNCHANGED <<chart_converter, config, logs, saved, now>>

\* The wall clock reaches the next second.
Tick ==
    /\ pc = "idle"
    /\ now < MaxClock
    /\ now' = now + 1
    /\ UNCHANGED <<chart_converter, config, logs, saved, pc, call>>

Next == RenderToPdf \/ RenderToBytes \/ Return \/ Tick

Spec == Init /\ [][Next]_vars

\* Widget discovery alone: _convert_charts_to_svg on documents of every
\* nesting.
ConvertCharts ==
    /\ pc = "idle"
    /\ \E doc \in NestedDocs :
          \E convert \in Converts(doc) :
             LET acc == _convert_charts_to_svg(doc.ir, chart_converter, convert)
             IN /\ pc' = "returned"
                /\ call' = [NoCall EXCEPT !.entry = "_convert_charts_to_svg",
                                          !.doc = doc, !.convert = convert,
                                          !.svg_map = acc.svg_map,
                                          !.calls = acc.calls]
                /\ UNCHANGED <<chart_converter, config, logs, saved, now>>

NextDiscovery == ConvertCharts \/ Return

SpecDiscovery == Init /\ [][NextDiscovery]_vars

(***************************************************************************)
(* Properties.                                                             *)
(***************************************************************************)
Rendered == pc = "returned" /\ call.entry \in {"render_to_pdf", "render_to_bytes"}

Did(c, step) == \E i \in 1..Len(c.trace) : c.trace[i] = step

Times(c, step) == Cardinality({i \in 1..Len(c.trace) : c.trace[i] = step})

\* The converter raised or returned nothing for widget w in this call.
Failed(w) == call.convert[w].raises \/ call.convert[w].svg = <<>>

Containers(html) ==
    {i \in 1..Len(html) : html[i].tag = "div.chart-svg-container"}

\* C1: in a render whose converter fails for a chart widget (it raises or
\* returns nothing), the call goes on to HTML rendering, that widget's id is
\* not a key of the vector map, every chart widget converted successfully,
\* before or after it, is a key with its content, and the patch step leaves
\* the failing widget's placeholder and fallback table as rendered.
C1_FailedChartIsolated ==
    (Rendered /\ chart_converter) =>
        \A k \in 1..Len(call.doc.charts) :
            LET w == call.doc.charts[k]
            IN Failed(w) =>
                /\ Did(call, "html_renderer.render")
                /\ w \notin Keys(call.svg_map)
                /\ \A v \in ChartSet(call.doc) :
                      ~Failed(v) =>
                          /\ v \in Keys(call.svg_map)
                          /\ Lookup(call.svg_map, v) = call.convert[v].svg
                /\ call.patched[CanvasIndex(k)] = Canvas(k)
                /\ call.patched[CanvasIndex(k) + 1] = Fallback(w)

\* The first chart's conversion raises, the second one's succeeds and is
\* injected.
C1_Witness ==
    /\ Rendered /\ chart_converter
    /\ call.doc = TwoChartDoc
    /\ call.convert["w1"].raises
    /\ call.convert["w2"] = Returns(PlainSvg)
    /\ Keys(call.svg_map) = {"w2"}
    /\ call.patched[CanvasIndex(1)] = Canvas(1)
    /\ call.patched[CanvasIndex(2)] = SvgContainer(<<"svg">>)
    /\ call.result

\* C2: when discovery runs (the converter exists), every chart widget of the
\* document, under any nesting of sub-blocks, list items and table cells, is
\* given to the converter, and is a key of the vector map if the converter
\* returned content for it.
C2_NestedChartsFound ==
    (pc = "returned" /\ call.entry = "_convert_charts_to_svg" /\ chart_converter) =>
        \A w \in ChartSet(call.doc) :
            /\ \E i \in 1..Len(call.calls) : call.calls[i] = w
            /\ ~Failed(w) => w \in Keys(call.svg_map)

\* A chart three levels deep, table -> cell -> list -> widget, is converted.
C2_Witness ==
    /\ pc = "returned" /\ call.entry = "_convert_charts_to_svg"
    /\ call.doc.path = <<"table", "list">>
    /\ call.doc.charts = <<"w2", "w1">>
    /\ call.calls = <<"w2", "w1">>
    /\ "w1" \in Keys(call.svg_map)

\* C3: in a render, for every chart widget whose conversion succeeds, the
\* patch step completes and the patched HTML holds a vector container in the
\* place of that widget's placeholder, one container per converted widget,
\* and the widget's canvas no more.
C3_VectorInjectedOnce ==
    (Rendered /\ chart_converter) =>
        \A k \in 1..Len(call.doc.charts) :
            ~Failed(call.doc.charts[k]) =>
                /\ call.exc # "re.error"
                /\ call.patched[CanvasIndex(k)].tag = "div.chart-svg-container"
                /\ \A i \in 1..Len(call.patched) : call.patched[i] # Canvas(k)
                /\ Cardinality(Containers(call.patched)) = Len(call.svg_map)

\* C4 as stated: with no font file, the call raises FileNotFoundError before
\* the HTML renderer is invoked, before any chart is vectorized and before
\* any audit log is written, and the rasterizer is never called.
C4_FontErrorAtStart ==
    (Rendered /\ call.exists = {}) =>
        /\ call.exc = "FileNotFoundError"
        /\ ~Did(call, "html_renderer.render")
        /\ call.calls = <<>>
        /\ ~Did(call, "save_config")
        /\ ~Did(call, "write_pdf")

\* C4 amended: with no font file, the call ends in an exception, returns no
\* result and never calls the rasterizer; FileNotFoundError is raised by the
\* font lookup, which comes last in _get_pdf_html's preparation: after the
\* layout optimization (with its audit log, when enabled), the chart
\* conversion and the HTML rendering; the only other exception is the patch
\* step's, raised before the lookup.
C4_FontErrorAfterHtml ==
    (Rendered /\ call.exists = {}) =>
        /\ call.exc \in {"FileNotFoundError", "re.error"}
        /\ ~call.result
        /\ ~Did(call, "write_pdf")
        /\ call.exc = "re.error" => ~Did(call, "_get_font_path")
        /\ call.exc = "FileNotFoundError" =>
              /\ call.trace[Len(call.trace)] = "_get_font_path"
              /\ Did(call, "html_renderer.render")
              /\ Did(call, "_convert_charts_to_svg")
              /\ call.optimize_layout => Did(call, "save_config")

\* No font file, optimization on: the log is written, a chart is vectorized
\* and the HTML rendered before FileNotFoundError is raised.
C4_Witness ==
    /\ Rendered /\ call.exists = {}
    /\ call.exc = "FileNotFoundError"
    /\ call.optimize_layout
    /\ now \in logs
    /\ call.calls # <<>>
    /\ Did(call, "html_renderer.render")

\* C5 as stated: the layout configuration a call uses depends only on the
\* call's document and flag.  A first call with optimization disabled uses
\* the constructor's layout, so the layout can be a function of (document,
\* flag) only if every call with the flag off uses that layout.
C5_LayoutFromInputsOnly ==
    Rendered =>
        call.layout_config = IF call.optimize_layout THEN LayoutFor(call.doc)
                             ELSE DefaultConfig

\* C5 amended: the optimizer's layout persists between calls.  A call with
\* optimization enabled uses, and stores, the layout derived from its own
\* document, whatever preceded it; a call with optimization disabled uses the
\* layout the optimizer holds, which is the one the latest optimized call
\* stored.
C5_LayoutPersists ==
    Rendered =>
        /\ call.optimize_layout =>
              /\ call.layout_config = LayoutFor(call.doc)
              /\ config = LayoutFor(call.doc)
        /\ ~call.optimize_layout => call.layout_config = config
        /\ Did(call, "generate_pdf_css") => call.css = call.layout_config

\* A call with optimization disabled, on a document without charts, uses the
\* layout an earlier call derived from a document with two charts.
C5_Witness ==
    /\ Rendered /\ Did(call, "generate_pdf_css")
    /\ ~call.optimize_layout
    /\ call.doc = NoChartDoc
    /\ call.layout_config = LayoutFor(TwoChartDoc)
    /\ call.css = LayoutFor(TwoChartDoc)

\* C6: every render with optimization enabled has a log file of its own:
\* after N such renders, N files exist under logs/pdf_layouts.
C6_OneLogPerRender == Cardinality(logs) = saved

\* C7: a failure of the rasterizer, through either entry point, is logged and
\* propagated; write_pdf is called once and no value is returned.
C7_RasterFailureLogged ==
    (Rendered /\ call.rasterFails) =>
        /\ call.exc = "RasterError"
        /\ Did(call, "logger.error")
        /\ Times(call, "write_pdf") = 1
        /\ ~call.result

\* C8: a render with optimization disabled writes no log file, invokes
\* neither optimize_for_document nor the document analysis, leaves the
\* optimizer's stored layout as it was and generates its CSS from it.
C8_DisabledOptimizationFrame ==
    [][(pc = "idle" /\ pc' = "returned"
          /\ call'.entry \in {"render_to_pdf", "render_to_bytes"}
          /\ ~call'.optimize_layout) =>
            /\ logs' = logs
            /\ saved' = saved
            /\ config' = config
            /\ call'.layout_config = config
            /\ ~Did(call', "optimize_for_document")
            /\ ~Did(call', "_analyze_document")
            /\ ~Did(call', "save_config")
            /\ Did(call', "generate_pdf_css") => call'.css = config]_vars

\* After an optimized render stored a layout and wrote a log, a render with
\* optimization disabled generates its CSS from that stored layout.
C8_Witness ==
    /\ Rendered /\ ~call.optimize_layout
    /\ config = LayoutFor(OneChartDoc)
    /\ saved = 1 /\ logs # {}
    /\ Did(call, "generate_pdf_css") /\ call.css = config
    /\ call.doc = TwoChartDoc

\* The fixed precedence of the candidates and each one's format tag.
Rank(font) ==
    CASE font = FullFont -> 1 [] font = SubsetTtf -> 2 [] font = SubsetOtf -> 3

Tag(font) ==
    CASE font = FullFont -> "opentype" [] font = SubsetTtf -> "truetype"
      [] font = SubsetOtf -> "opentype"

\* C9: whenever a render reaches the font lookup, FileNotFoundError is raised
\* exactly when no candidate exists; otherwise the font embedded is an
\* existing candidate, no existing candidate precedes it (full font, then
\* TrueType subset, then OpenType subset), and the format tag is 'opentype'
\* for an .otf file and 'truetype' otherwise.
C9_FontPrecedence ==
    (Rendered /\ Did(call, "_get_font_path")) =>
        /\ call.exc = "FileNotFoundError" <=> call.exists = {}
        /\ call.exists # {} =>
              /\ call.font_path \in call.exists
              /\ \A f \in call.exists : Rank(call.font_path) <= Rank(f)
              /\ call.font_format = Tag(call.font_path)

\* Both subsets exist, the full font does not: the TrueType subset is chosen.
C9_Witness ==
    /\ Rendered
    /\ call.exists = {SubsetTtf, SubsetOtf}
    /\ call.font_path = SubsetTtf
    /\ call.font_format = "truetype"
    /\ call.result

\* C10: on an instance whose converter could not be initialised, a render
\* never invokes the converter, its vector map is empty, and the HTML after
\* the patch step is the HTML renderer's own.
C10_NoConverterNoPatch ==
    (Rendered /\ ~chart_converter) =>
        /\ call.calls = <<>>
        /\ call.svg_map = <<>>
        /\ ~Did(call, "_inject_svg_into_html")
        /\ call.patched = HtmlRender(call.doc)

\* Without a converter, a document with two charts it could have converted
\* renders to a PDF with both placeholders as the HTML renderer made them.
C10_Witness ==
    /\ Rendered /\ ~chart_converter
    /\ call.doc = TwoChartDoc
    /\ call.convert["w1"] = Returns(PlainSvg)
    /\ call.convert["w2"] = Returns(PlainSvg)
    /\ call.patched[CanvasIndex(1)] = Canvas(1)
    /\ call.patched[CanvasIndex(2)] = Canvas(2)
    /\ call.result

====
